---- MODULE Spec2Model ----
(***************************************************************************)
(* arpingall: reads the kernel IPv4 routing table, derives the default     *)
(* gateway of every interface, enumerates the local addresses and runs     *)
(* `arping -U -c 1 -I <iface> -s <source> <gateway>` for every IPv4        *)
(* address whose interface has a default gateway.                          *)
(*                                                                         *)
(* Go strings are modelled as sequences of one-character strings, byte     *)
(* slices (net.IP, net.HardwareAddr) as sequences of 0..255.  The lines    *)
(* written with package log go to standard error and change nothing the    *)
(* program reads; they are left out.  A read error of the routing table is *)
(* taken to persist: every later read of the file fails as well.           *)
(***************************************************************************)
EXTENDS Integers, Sequences, FiniteSets, TLC

VARIABLES
    routeFile,      \* /proc/net/route as os.Open and the reads see it
    netIfaces,      \* what net.Interfaces() and Interface.Addrs() answer
    pc,             \* position of main
    routes,         \* getDefaultRoutes: routes returned by GetRoutes
    routesErr,      \* getDefaultRoutes: err returned by GetRoutes
    defaultRoutes,  \* main: map[string]net.IP
    ifaces,         \* main: []iface returned by localAddresses
    ifacesErr,      \* main: err returned by localAddresses
    idx,            \* main: position of the range loop over ifaces
    invocations,    \* every exec.Command("arping", args...) run so far
    printed,        \* what fmt.Println wrote to standard output
    exitCode        \* process exit status once pc = "exit"

vars == <<routeFile, netIfaces, pc, routes, routesErr, defaultRoutes, ifaces,
          ifacesErr, idx, invocations, printed, exitCode>>

(***************************************************************************)
(* Bounds of the model.                                                    *)
(***************************************************************************)
MaxLines == 2       \* data lines of a generated routing table
MaxIfaces == 2      \* interfaces answered by net.Interfaces()

(***************************************************************************)
(* Strings.                                                                *)
(***************************************************************************)
NL == "\n"

IsSpace(c) == c \in {" ", "\t", "\n", "\r", "\f"}

\* position of the first c in s, 0 when there is none
IndexByte(s, c) ==
    IF \E i \in 1..Len(s) : s[i] = c
    THEN CHOOSE i \in 1..Len(s) : s[i] = c /\ \A j \in 1..(i - 1) : s[j] # c
    ELSE 0

\* length of the leading run of non-space characters of s
RunLen(s) ==
    IF \E i \in 1..Len(s) : IsSpace(s[i])
    THEN (CHOOSE i \in 1..Len(s) : IsSpace(s[i]) /\ \A j \in 1..(i - 1) : ~IsSpace(s[j])) - 1
    ELSE Len(s)

\* strings.Fields
RECURSIVE Fields(_)
Fields(s) ==
    IF s = <<>> THEN <<>>
    ELSE IF IsSpace(Head(s)) THEN Fields(Tail(s))
    ELSE <<SubSeq(s, 1, RunLen(s))>> \o Fields(SubSeq(s, RunLen(s) + 1, Len(s)))

RECURSIVE Flatten(_)
Flatten(ss) == IF ss = <<>> THEN <<>> ELSE Head(ss) \o Flatten(Tail(ss))

RECURSIVE Join(_, _)
Join(ss, sep) ==
    IF ss = <<>> THEN <<>>
    ELSE IF Len(ss) = 1 THEN ss[1]
    ELSE ss[1] \o sep \o Join(Tail(ss), sep)

DecDigits == <<"0", "1", "2", "3", "4", "5", "6", "7", "8", "9">>

\* strconv-style decimal text of a natural number
RECURSIVE Itoa(_)
Itoa(n) == IF n < 10 THEN <<DecDigits[n + 1]>> ELSE Itoa(n \div 10) \o <<DecDigits[(n % 10) + 1]>>

(***************************************************************************)
(* encoding/hex                                                            *)
(***************************************************************************)
HexLower == <<"0", "1", "2", "3", "4", "5", "6", "7", "8", "9", "a", "b", "c", "d", "e", "f">>
HexUpper == <<"0", "1", "2", "3", "4", "5", "6", "7", "8", "9", "A", "B", "C", "D", "E", "F">>

\* value of a hex digit, -1 for any other character
FromHexChar(c) ==
    IF \E i \in 1..16 : HexLower[i] = c THEN (CHOOSE i \in 1..16 : HexLower[i] = c) - 1
    ELSE IF \E i \in 1..16 : HexUpper[i] = c THEN (CHOOSE i \in 1..16 : HexUpper[i] = c) - 1
    ELSE -1

\* hex.DecodeString: the bytes, or InvalidByteError / ErrLength
DecodeString(s) ==
    LET n == Len(s) \div 2
    IN  IF \E i \in 1..(2 * n) : FromHexChar(s[i]) < 0
        THEN [bytes |-> <<>>, err |-> "hex.InvalidByteError"]
        ELSE IF Len(s) % 2 = 1
        THEN [bytes |-> <<>>,
              err |-> IF FromHexChar(s[Len(s)]) < 0 THEN "hex.InvalidByteError" ELSE "hex.ErrLength"]
        ELSE [bytes |-> [i \in 1..n |-> 16 * FromHexChar(s[2 * i - 1]) + FromHexChar(s[2 * i])],
              err |-> "nil"]

(***************************************************************************)
(* parseIP and GetRoutes                                                   *)
(***************************************************************************)
IPv4len == 4

NilIP == <<>>

parseIP(str) ==
    LET d == DecodeString(str)
    IN  IF d.err # "nil" THEN [ip |-> NilIP, err |-> d.err]
        ELSE IF Len(d.bytes) # IPv4len THEN [ip |-> NilIP, err |-> "only IPv4 is supported"]
        ELSE [ip |-> <<d.bytes[4], d.bytes[3], d.bytes[2], d.bytes[1]>>, err |-> "nil"]

\* bufio.Reader.ReadString(delim) on a reader rd = [buf, err]: buf is what is
\* left of the file, err what the file answers once buf is used up
ReadString(rd, delim) ==
    LET i == IndexByte(rd.buf, delim)
    IN  IF i > 0
        THEN [line |-> SubSeq(rd.buf, 1, i), err |-> "nil",
              rd |-> [rd EXCEPT !.buf = SubSeq(rd.buf, i + 1, Len(rd.buf))]]
        ELSE [line |-> rd.buf, err |-> rd.err, rd |-> [rd EXCEPT !.buf = <<>>]]

\* the for loop of GetRoutes
RECURSIVE GetRoutesLoop(_, _, _)
GetRoutesLoop(rd, rs, lineNum) ==
    LET r == ReadString(rd, NL)
        fields == Fields(r.line)
    IN  IF r.err = "EOF" THEN [routes |-> rs, err |-> "nil"]
        ELSE IF Len(fields) < 3 THEN [routes |-> <<>>, err |-> "wrong number of fields"]
        ELSE IF lineNum + 1 = 1 THEN GetRoutesLoop(r.rd, rs, lineNum + 1)
        ELSE LET dst == parseIP(fields[2])
                 gw == parseIP(fields[3])
             IN  IF dst.err # "nil" THEN [routes |-> <<>>, err |-> dst.err]
                 ELSE IF gw.err # "nil" THEN [routes |-> <<>>, err |-> gw.err]
                 ELSE GetRoutesLoop(r.rd,
                          Append(rs, [Interface |-> fields[1], Destination |-> dst.ip, Gateway |-> gw.ip]),
                          lineNum + 1)

\* the reader GetRoutes gets from os.Open: a nil *os.File answers every read
\* with os.ErrInvalid
OpenReader(f) ==
    IF f.open THEN [buf |-> f.text, err |-> f.err] ELSE [buf |-> <<>>, err |-> "os.ErrInvalid"]

GetRoutes(f) == GetRoutesLoop(OpenReader(f), <<>>, 0)

(***************************************************************************)
(* getDefaultRoutes                                                        *)
(***************************************************************************)
EmptyMap == [k \in {} |-> NilIP]

\* m[k] = v of a Go map
MapPut(m, k, v) == [x \in (DOMAIN m) \cup {k} |-> IF x = k THEN v ELSE m[x]]

\* variant of the loop that keeps the first default route of an interface
RECURSIVE DefaultRoutesLoopFirstWins(_, _)
DefaultRoutesLoopFirstWins(rs, m) ==
    IF rs = <<>> THEN m
    ELSE DefaultRoutesLoopFirstWins(Tail(rs),
             IF Head(rs).Destination = <<0, 0, 0, 0>> /\ Head(rs).Interface \notin DOMAIN m
             THEN MapPut(m, Head(rs).Interface, Head(rs).Gateway)
             ELSE m)

\* the range loop of getDefaultRoutes
RECURSIVE DefaultRoutesLoop(_, _)
DefaultRoutesLoop(rs, m) ==
    IF rs = <<>> THEN m
    ELSE DefaultRoutesLoop(Tail(rs),
             IF Head(rs).Destination = <<0, 0, 0, 0>>
             THEN MapPut(m, Head(rs).Interface, Head(rs).Gateway)
             ELSE m)

(***************************************************************************)
(* package net: HardwareAddr.String, ParseCIDR, IP.To4, IP.String           *)
(***************************************************************************)
\* two lower-case hex digits of a byte
HexByte(b) == <<HexLower[(b \div 16) + 1], HexLower[(b % 16) + 1]>>

\* net.HardwareAddr.String: "" for an empty address, else aa:bb:...
HardwareAddrString(hw) == Join([i \in 1..Len(hw) |-> HexByte(hw[i])], <<":">>)

\* strings.Split(s, c) for a one-character separator
RECURSIVE Split(_, _)
Split(s, c) ==
    IF IndexByte(s, c) = 0 THEN <<s>>
    ELSE <<SubSeq(s, 1, IndexByte(s, c) - 1)>> \o Split(SubSeq(s, IndexByte(s, c) + 1, Len(s)), c)

IsDigits(s) == s # <<>> /\ \A i \in 1..Len(s) : \E d \in 1..10 : DecDigits[d] = s[i]

\* value of a decimal text
RECURSIVE Atoi(_)
Atoi(s) ==
    IF s = <<>> THEN 0
    ELSE 10 * Atoi(SubSeq(s, 1, Len(s) - 1)) + ((CHOOSE d \in 1..10 : DecDigits[d] = s[Len(s)]) - 1)

\* dotted-decimal IPv4 text to its 16-byte form, NilIP when it is none
ParseIPv4(s) ==
    LET parts == Split(s, ".")
        okPart(p) == IsDigits(p) /\ Len(p) <= 3 /\ (Len(p) > 1 => p[1] # "0") /\ Atoi(p) <= 255
    IN  IF Len(parts) = 4 /\ \A i \in 1..4 : okPart(parts[i])
        THEN <<0, 0, 0, 0, 0, 0, 0, 0, 0, 0, 255, 255>> \o [i \in 1..4 |-> Atoi(parts[i])]
        ELSE NilIP

IsHexGroup(g) == Len(g) >= 1 /\ Len(g) <= 4 /\ \A i \in 1..Len(g) : FromHexChar(g[i]) >= 0

RECURSIVE HexValue(_)
HexValue(g) == IF g = <<>> THEN 0 ELSE 16 * HexValue(SubSeq(g, 1, Len(g) - 1)) + FromHexChar(g[Len(g)])

GroupBytes(gs) == Flatten([i \in 1..Len(gs) |-> <<HexValue(gs[i]) \div 256, HexValue(gs[i]) % 256>>])

\* IPv6 text (hex groups, at most one "::", no zone, no embedded IPv4) to its
\* 16 bytes, NilIP when it is none
ParseIPv6(s) ==
    LET k == IF \E i \in 1..(Len(s) - 1) : s[i] = ":" /\ s[i + 1] = ":"
             THEN CHOOSE i \in 1..(Len(s) - 1) :
                      /\ s[i] = ":" /\ s[i + 1] = ":"
                      /\ \A j \in 1..(i - 1) : ~(s[j] = ":" /\ s[j + 1] = ":")
             ELSE 0
        groups(t) == IF t = <<>> THEN <<>> ELSE Split(t, ":")
        left == groups(SubSeq(s, 1, k - 1))
        right == groups(SubSeq(s, k + 2, Len(s)))
        all == Split(s, ":")
        okAll(gs) == \A i \in 1..Len(gs) : IsHexGroup(gs[i])
    IN  IF k = 0
        THEN IF Len(all) = 8 /\ okAll(all) THEN GroupBytes(all) ELSE NilIP
        ELSE IF okAll(left) /\ okAll(right) /\ Len(left) + Len(right) <= 7
        THEN GroupBytes(left) \o [i \in 1..(16 - 2 * (Len(left) + Len(right))) |-> 0] \o GroupBytes(right)
        ELSE NilIP

\* the net.IP of net.ParseCIDR(s): 16 bytes, NilIP on a parse error
ParseCIDR(s) ==
    LET i == IndexByte(s, "/")
        addr == SubSeq(s, 1, i - 1)
        mask == SubSeq(s, i + 1, Len(s))
        isV4 == IndexByte(addr, ".") > 0 /\ (IndexByte(addr, ":") = 0 \/ IndexByte(addr, ".") < IndexByte(addr, ":"))
        ip == IF isV4 THEN ParseIPv4(addr) ELSE ParseIPv6(addr)
    IN  IF i = 0 THEN NilIP
        ELSE IF ip = NilIP THEN NilIP
        ELSE IF ~IsDigits(mask) \/ Atoi(mask) > (IF isV4 THEN 32 ELSE 128) THEN NilIP
        ELSE ip

\* net.IP.To4: the 4-byte form of an IPv4 address, NilIP otherwise
To4(ip) ==
    IF Len(ip) = IPv4len THEN ip
    ELSE IF Len(ip) = 16 /\ (\A i \in 1..10 : ip[i] = 0) /\ ip[11] = 255 /\ ip[12] = 255
    THEN SubSeq(ip, 13, 16)
    ELSE NilIP

\* net.IP.String of an IPv4 address (4-byte or 16-byte form): a.b.c.d
IPString(ip) == Join([i \in 1..4 |-> Itoa(To4(ip)[i])], <<".">>)

(***************************************************************************)
(* localAddresses                                                          *)
(***************************************************************************)
\* variant of the loops without the hardware-address test
RECURSIVE localAddressesLoopKeepsAll(_, _)
localAddressesLoopKeepsAll(list, acc) ==
    IF list = <<>> THEN acc
    ELSE IF Head(list).addrsErr THEN localAddressesLoopKeepsAll(Tail(list), acc)
    ELSE localAddressesLoopKeepsAll(Tail(list),
             acc \o [k \in 1..Len(Head(list).addrs) |->
                        [name |-> Head(list).Name,
                         mac |-> HardwareAddrString(Head(list).HardwareAddr),
                         addr |-> Head(list).addrs[k]]])

\* the two range loops of localAddresses
RECURSIVE localAddressesLoop(_, _)
localAddressesLoop(list, acc) ==
    IF list = <<>> THEN acc
    ELSE IF HardwareAddrString(Head(list).HardwareAddr) = <<>> THEN localAddressesLoop(Tail(list), acc)
    ELSE IF Head(list).addrsErr THEN localAddressesLoop(Tail(list), acc)
    ELSE localAddressesLoop(Tail(list),
             acc \o [k \in 1..Len(Head(list).addrs) |->
                        [name |-> Head(list).Name,
                         mac |-> HardwareAddrString(Head(list).HardwareAddr),
                         addr |-> Head(list).addrs[k]]])

localAddresses(n) ==
    IF n.err THEN [list |-> <<>>, err |-> "net.Interfaces"]
    ELSE [list |-> localAddressesLoop(n.list, <<>>), err |-> "nil"]

(***************************************************************************)
(* exec.Command("arping", args...).Output()                                *)
(***************************************************************************)
ArgU == <<"-", "U">>
ArgC == <<"-", "c">>
ArgOne == <<"1">>
ArgI == <<"-", "I">>
ArgS == <<"-", "s">>

\* variant of the arguments with source and target exchanged
ArpingArgsSwapped(name, ip, gw) == <<ArgU, ArgC, ArgOne, ArgI, name, ArgS, IPString(gw), IPString(ip)>>

\* args of main's exec.Command
ArpingArgs(name, ip, gw) == <<ArgU, ArgC, ArgOne, ArgI, name, ArgS, IPString(ip), IPString(gw)>>

OutReply == <<"r", "e", "p", "l", "y">>
ErrWarn == <<"w", "a", "r", "n">>

\* what a run of the tool can do: not start at all, or write to its standard
\* output and standard error and exit with a status
ToolRuns ==
    {[started |-> FALSE, status |-> 1, stdout |-> <<>>, stderr |-> <<>>]}
    \cup [started : {TRUE}, status : {0, 1}, stdout : {OutReply}, stderr : {<<>>, ErrWarn}]

\* variant of Cmd.Output that behaves as Cmd.CombinedOutput
OutputCombined(run) ==
    [out |-> run.stdout \o run.stderr,
     err |-> IF ~run.started THEN "exec.Error" ELSE IF run.status # 0 THEN "exec.ExitError" ELSE "nil"]

\* Cmd.Output: the standard output alone, and an error when the tool did not
\* start or exited non-zero (the standard error goes into the ExitError)
Output(run) ==
    [out |-> run.stdout,
     err |-> IF ~run.started THEN "exec.Error" ELSE IF run.status # 0 THEN "exec.ExitError" ELSE "nil"]

(***************************************************************************)
(* main                                                                    *)
(***************************************************************************)
\* variant of getDefaultRoutes that goes on after an error of GetRoutes
getDefaultRoutesIgnoresErr ==
    /\ pc = "start"
    /\ routes' = GetRoutes(routeFile).routes
    /\ routesErr' = GetRoutes(routeFile).err
    /\ defaultRoutes' = DefaultRoutesLoop(routes', EmptyMap)
    /\ pc' = "list"
    /\ UNCHANGED <<printed, exitCode>>
    /\ UNCHANGED <<routeFile, netIfaces, ifaces, ifacesErr, idx, invocations>>

\* main, line 132: defaultRoutes := getDefaultRoutes()
getDefaultRoutes ==
    /\ pc = "start"
    /\ routes' = GetRoutes(routeFile).routes
    /\ routesErr' = GetRoutes(routeFile).err
    /\ IF routesErr' # "nil"
       THEN /\ printed' = Append(printed, [call |-> "Printf", text |-> routesErr'])
            /\ exitCode' = 1
            /\ pc' = "exit"
            /\ UNCHANGED defaultRoutes
       ELSE /\ defaultRoutes' = DefaultRoutesLoop(routes', EmptyMap)
            /\ pc' = "list"
            /\ UNCHANGED <<printed, exitCode>>
    /\ UNCHANGED <<routeFile, netIfaces, ifaces, ifacesErr, idx, invocations>>

\* main, lines 134-138: ifaces, err := localAddresses()
mainLocalAddresses ==
    /\ pc = "list"
    /\ ifaces' = localAddresses(netIfaces).list
    /\ ifacesErr' = localAddresses(netIfaces).err
    /\ IF ifacesErr' # "nil"
       THEN exitCode' = 1 /\ pc' = "exit" /\ UNCHANGED idx
       ELSE pc' = "loop" /\ idx' = 1 /\ UNCHANGED exitCode
    /\ UNCHANGED <<routeFile, netIfaces, routes, routesErr, defaultRoutes, invocations, printed>>

\* the address of the current iteration parsed as main does it
CurrentIP == ParseCIDR(ifaces[idx].addr)

\* defaultRoutes[name]: nil for a missing key
Lookup(m, name) == IF name \in DOMAIN m THEN m[name] ELSE NilIP

\* main, lines 141-145: the address is not IPv4
mainSkipNonIPv4 ==
    /\ pc = "loop" /\ idx <= Len(ifaces)
    /\ To4(CurrentIP) = NilIP
    /\ idx' = idx + 1
    /\ UNCHANGED <<routeFile, netIfaces, pc, routes, routesErr, defaultRoutes, ifaces,
                   ifacesErr, invocations, printed, exitCode>>

\* variant of the gateway skip that ends the run
mainSkipNoGatewayAborts ==
    /\ pc = "loop" /\ idx <= Len(ifaces)
    /\ To4(CurrentIP) # NilIP
    /\ Lookup(defaultRoutes, ifaces[idx].name) = NilIP
    /\ pc' = "exit" /\ exitCode' = 0
    /\ UNCHANGED <<routeFile, netIfaces, routes, routesErr, defaultRoutes, ifaces,
                   ifacesErr, idx, invocations, printed>>

\* main, lines 147-151: the interface has no default gateway
mainSkipNoGateway ==
    /\ pc = "loop" /\ idx <= Len(ifaces)
    /\ To4(CurrentIP) # NilIP
    /\ Lookup(defaultRoutes, ifaces[idx].name) = NilIP
    /\ idx' = idx + 1
    /\ UNCHANGED <<routeFile, netIfaces, pc, routes, routesErr, defaultRoutes, ifaces,
                   ifacesErr, invocations, printed, exitCode>>

\* variant of the invocation that goes on after a failure
mainArpingContinues ==
    /\ pc = "loop" /\ idx <= Len(ifaces)
    /\ To4(CurrentIP) # NilIP
    /\ Lookup(defaultRoutes, ifaces[idx].name) # NilIP
    /\ \E run \in ToolRuns :
        /\ invocations' = Append(invocations,
               [args |-> ArpingArgs(ifaces[idx].name, CurrentIP, Lookup(defaultRoutes, ifaces[idx].name)),
                run |-> run])
        /\ IF Output(run).err # "nil"
           THEN UNCHANGED printed
           ELSE printed' = Append(printed, [call |-> "Println", text |-> Output(run).out])
        /\ idx' = idx + 1
        /\ UNCHANGED <<pc, exitCode>>
    /\ UNCHANGED <<routeFile, netIfaces, routes, routesErr, defaultRoutes, ifaces, ifacesErr>>

\* main, lines 168-176: run arping, print its output or exit
mainArping ==
    /\ pc = "loop" /\ idx <= Len(ifaces)
    /\ To4(CurrentIP) # NilIP
    /\ Lookup(defaultRoutes, ifaces[idx].name) # NilIP
    /\ \E run \in ToolRuns :
        /\ invocations' = Append(invocations,
               [args |-> ArpingArgs(ifaces[idx].name, CurrentIP, Lookup(defaultRoutes, ifaces[idx].name)),
                run |-> run])
        /\ IF Output(run).err # "nil"
           THEN exitCode' = 1 /\ pc' = "exit" /\ UNCHANGED <<idx, printed>>
           ELSE /\ printed' = Append(printed, [call |-> "Println", text |-> Output(run).out])
                /\ idx' = idx + 1
                /\ UNCHANGED <<pc, exitCode>>
    /\ UNCHANGED <<routeFile, netIfaces, routes, routesErr, defaultRoutes, ifaces, ifacesErr>>

\* main returns after the last iteration
mainReturn ==
    /\ pc = "loop" /\ idx > Len(ifaces)
    /\ pc' = "exit" /\ exitCode' = 0
    /\ UNCHANGED <<routeFile, netIfaces, routes, routesErr, defaultRoutes, ifaces,
                   ifacesErr, idx, invocations, printed>>

(***************************************************************************)
(* Inputs: routing tables                                                  *)
(***************************************************************************)
HeaderFull == <<"I", "f", "a", "c", "e", "\t", "D", "e", "s", "t", "i", "n", "a", "t", "i", "o", "n", "\t", "G", "a", "t", "e", "w", "a", "y", " ", "\t", "F", "l", "a", "g", "s">>
HeaderShort == <<"I", "f", "a", "c", "e">>
Eth0 == <<"e", "t", "h", "0">>
Eth1 == <<"e", "t", "h", "1">>
Lo == <<"l", "o">>
HexZero == <<"0", "0", "0", "0", "0", "0", "0", "0">>
HexGwA == <<"0", "1", "0", "1", "A", "8", "C", "0">>
HexGwB == <<"f", "e", "0", "1", "a", "8", "c", "0">>
HexGwC == <<"0", "1", "0", "0", "0", "0", "0", "A">>
HexNetA == <<"0", "0", "0", "0", "A", "8", "C", "0">>
HexBadDigit == <<"0", "0", "0", "0", "0", "0", "0", "G">>
HexOddLen == <<"0", "1", "0", "1", "A", "8", "C">>
HexFiveBytes == <<"0", "1", "0", "1", "A", "8", "C", "0", "0", "0">>
HexFlags == <<"0", "0", "0", "3">>

TAB == <<"\t">>

LineDefaultA == Join(<<Eth0, HexZero, HexGwA, HexFlags>>, TAB)
LineNetA == Join(<<Eth0, HexNetA, HexZero, HexFlags>>, TAB)
LineDefaultB == Join(<<Eth0, HexZero, HexGwB>>, <<" ">>)
LineDefaultC == Join(<<Eth1, HexZero, HexGwC, HexFlags>>, TAB)
LineTwoFields == Join(<<Eth0, HexZero>>, TAB)
LineBlank == <<>>
LineBadDigit == Join(<<Eth0, HexBadDigit, HexGwA>>, TAB)
LineOddLen == Join(<<Eth0, HexZero, HexOddLen>>, TAB)
LineFiveBytes == Join(<<Eth1, HexZero, HexFiveBytes>>, TAB)

Headers == {HeaderFull, HeaderShort, LineBlank}

DataLines == {LineDefaultA, LineNetA, LineDefaultB, LineDefaultC, LineTwoFields, LineBlank,
              LineBadDigit, LineOddLen, LineFiveBytes}

\* the sequences over S of length at most n
SeqUpTo(S, n) == UNION {[1..k -> S] : k \in 0..n}

\* the text of a table: every line followed by a newline, except the last one
\* of a text that does not end with a newline
TextOf(lines, terminated) ==
    LET t == Flatten([i \in 1..Len(lines) |-> lines[i] \o <<NL>>])
    IN  IF terminated \/ t = <<>> THEN t ELSE SubSeq(t, 1, Len(t) - 1)

Texts ==
    {TextOf(<<h>> \o ls, t) : h \in Headers, ls \in SeqUpTo(DataLines, MaxLines), t \in BOOLEAN}
    \cup {<<>>}

NoFile == [open |-> FALSE, text |-> <<>>, err |-> "os.ErrInvalid"]

\* the file as GetRoutes finds it: missing, or a text whose reads end with
\* io.EOF or with an I/O error
RouteFiles == {NoFile} \cup [open : {TRUE}, text : Texts, err : {"EOF", "EIO"}]

MainRouteFiles ==
    {NoFile, [open |-> TRUE, text |-> TextOf(<<HeaderFull, LineDefaultA>>, TRUE), err |-> "EIO"]}
    \cup [open : {TRUE},
          text : {TextOf(<<HeaderFull, LineDefaultA, LineNetA>>, TRUE),
                  TextOf(<<HeaderFull, LineDefaultA, LineDefaultC>>, TRUE),
                  TextOf(<<HeaderFull, LineDefaultA, LineDefaultB>>, TRUE),
                  TextOf(<<HeaderFull, LineDefaultA, LineBadDigit>>, TRUE),
                  TextOf(<<HeaderFull, LineDefaultC>>, FALSE),
                  TextOf(<<HeaderFull>>, TRUE),
                  TextOf(<<HeaderFull, LineDefaultA, LineTwoFields>>, TRUE),
                  TextOf(<<HeaderFull, LineDefaultC, LineFiveBytes>>, TRUE)},
          err : {"EOF"}]

(***************************************************************************)
(* Inputs: interfaces                                                      *)
(***************************************************************************)
\* Addr.String() of an IPv4 network address: a.b.c.d/n
CIDRText(b, n) == Join([i \in 1..4 |-> Itoa(b[i])], <<".">>) \o <<"/">> \o Itoa(n)

AddrV4A == CIDRText(<<10, 0, 0, 2>>, 24)
AddrV4B == CIDRText(<<10, 0, 0, 130>>, 25)
AddrV4C == CIDRText(<<192, 168, 1, 7>>, 16)
AddrV4Lo == CIDRText(<<127, 0, 0, 1>>, 8)
AddrV6 == <<"f", "e", "8", "0", ":", ":", "1", "/", "6", "4">>
AddrNilText == <<"<", "n", "i", "l", ">">>

V4Texts == {AddrV4A, AddrV4B, AddrV4C, AddrV4Lo}

MacA == <<0, 39, 14, 9, 127, 99>>
MacB == <<2, 0, 0, 0, 0, 1>>

IfaceDescs ==
    {[Name |-> Eth0, HardwareAddr |-> MacA, addrs |-> <<AddrV4A>>, addrsErr |-> FALSE],
     [Name |-> Eth0, HardwareAddr |-> MacA, addrs |-> <<AddrV6, AddrV4A, AddrNilText, AddrV4B>>, addrsErr |-> FALSE],
     [Name |-> Eth1, HardwareAddr |-> MacB, addrs |-> <<AddrV4C>>, addrsErr |-> FALSE],
     [Name |-> Eth1, HardwareAddr |-> MacB, addrs |-> <<>>, addrsErr |-> TRUE],
     [Name |-> Lo, HardwareAddr |-> <<>>, addrs |-> <<AddrV4Lo>>, addrsErr |-> FALSE]}

\* net.Interfaces() fails, or answers interfaces of distinct names
NetConfigs ==
    {[err |-> TRUE, list |-> <<>>]}
    \cup {[err |-> FALSE, list |-> l] : l \in
            {l \in SeqUpTo(IfaceDescs, MaxIfaces) :
                \A i, j \in 1..Len(l) : l[i].Name = l[j].Name => i = j}}

(***************************************************************************)
(* Specifications                                                          *)
(***************************************************************************)
InitLocals ==
    /\ pc = "start"
    /\ routes = <<>>
    /\ routesErr = "nil"
    /\ defaultRoutes = EmptyMap
    /\ ifaces = <<>>
    /\ ifacesErr = "nil"
    /\ idx = 0
    /\ invocations = <<>>
    /\ printed = <<>>
    /\ exitCode = -1

Init ==
    /\ routeFile \in MainRouteFiles
    /\ netIfaces \in NetConfigs
    /\ InitLocals

Next ==
    \/ getDefaultRoutes
    \/ mainLocalAddresses
    \/ mainSkipNonIPv4
    \/ mainSkipNoGateway
    \/ mainArping
    \/ mainReturn

Spec == Init /\ [][Next]_vars

\* getDefaultRoutes alone, on every generated routing table
InitRoutes ==
    /\ routeFile \in RouteFiles
    /\ netIfaces = [err |-> TRUE, list |-> <<>>]
    /\ InitLocals

NextRoutes == getDefaultRoutes

SpecRoutes == InitRoutes /\ [][NextRoutes]_vars

(***************************************************************************)
(* Vocabulary of the properties                                            *)
(***************************************************************************)
\* the lines of a text: the newline-terminated ones, then what follows the
\* last newline when that is not empty
RECURSIVE SplitLines(_)
SplitLines(t) ==
    IF t = <<>> THEN <<>>
    ELSE IF IndexByte(t, NL) = 0 THEN <<t>>
    ELSE <<SubSeq(t, 1, IndexByte(t, NL) - 1)>> \o SplitLines(SubSeq(t, IndexByte(t, NL) + 1, Len(t)))

FileLines == SplitLines(routeFile.text)

\* the file could be opened and read to its end
FileRead == routeFile.open /\ routeFile.err = "EOF"

\* GetRoutes has returned
RoutesRead == pc # "start"

IsHex8(fld) == Len(fld) = 8 /\ \A i \in 1..8 : FromHexChar(fld[i]) >= 0

\* the 4 bytes written in an 8-character hex field, last byte first
ReversedBytes(fld) == [i \in 1..4 |-> 16 * FromHexChar(fld[9 - 2 * i]) + FromHexChar(fld[10 - 2 * i])]

WellFormedLine(l) == Len(Fields(l)) >= 3 /\ IsHex8(Fields(l)[2]) /\ IsHex8(Fields(l)[3])

RouteOfLine(l) ==
    [Interface |-> Fields(l)[1],
     Destination |-> ReversedBytes(Fields(l)[2]),
     Gateway |-> ReversedBytes(Fields(l)[3])]

Dotted(b) == Join([i \in 1..4 |-> Itoa(b[i])], <<".">>)

BeforeSlash(a) == SubSeq(a, 1, IndexByte(a, "/") - 1)

\* a LocalAddress the tool is to be run for
Eligible(L) == L.addr \in V4Texts /\ L.name \in DOMAIN defaultRoutes

\* the arguments the tool is to get for an eligible LocalAddress
ProbeArgs(L) ==
    <<ArgU, ArgC, ArgOne, ArgI, L.name, ArgS, BeforeSlash(L.addr), Dotted(defaultRoutes[L.name])>>

ToolFailed(run) == ~run.started \/ run.status # 0

ArgsOf(invs) == [k \in 1..Len(invs) |-> invs[k].args]

IsPrintln(p) == p.call = "Println"

IsDefault(r) == r.Destination = <<0, 0, 0, 0>>

(***************************************************************************)
(* Properties                                                              *)
(***************************************************************************)
\* C1: every invocation of arping comes from one LocalAddress whose address
\* is IPv4 and whose interface is in the default-gateway index, and its
\* arguments are -U -c 1 -I <name> -s <IP without prefix length> <gateway>.
C1_InvocationsAreProbes ==
    \A k \in 1..Len(invocations) :
        \E i \in 1..Len(ifaces) :
            Eligible(ifaces[i]) /\ invocations[k].args = ProbeArgs(ifaces[i])

\* three invocations were made in a run that also met an IPv6 address
C1_Witness ==
    /\ Len(invocations) = 3
    /\ \E i \in 1..Len(ifaces) : ifaces[i].addr = AddrV6

\* C2: the map of getDefaultRoutes holds an interface exactly when a route of
\* it has destination 0.0.0.0, with the gateway of the last such route.
C2_LastDefaultRouteWins ==
    pc = "list" =>
        /\ DOMAIN defaultRoutes = {routes[i].Interface : i \in {j \in 1..Len(routes) : IsDefault(routes[j])}}
        /\ \A n \in DOMAIN defaultRoutes :
              \E i \in 1..Len(routes) :
                  /\ routes[i].Interface = n /\ IsDefault(routes[i])
                  /\ defaultRoutes[n] = routes[i].Gateway
                  /\ \A j \in (i + 1)..Len(routes) : ~(routes[j].Interface = n /\ IsDefault(routes[j]))

\* two default routes of one interface with different gateways were indexed
C2_Witness ==
    /\ pc = "list"
    /\ \E i, j \in 1..Len(routes) :
          /\ i < j /\ IsDefault(routes[i]) /\ IsDefault(routes[j])
          /\ routes[i].Interface = routes[j].Interface
          /\ routes[i].Gateway # routes[j].Gateway

\* C3: a failed invocation is the last one of the run, and the process exits
\* with code 1 right after it.
C3_FailureAborts ==
    \A k \in 1..Len(invocations) :
        ToolFailed(invocations[k].run) => k = Len(invocations) /\ pc = "exit" /\ exitCode = 1

\* an invocation failed while an eligible address was still to come
C3_Witness ==
    /\ invocations # <<>>
    /\ ToolFailed(invocations[Len(invocations)].run)
    /\ \E i \in (idx + 1)..Len(ifaces) : Eligible(ifaces[i])

\* C4: skips never end the run: while no invocation has failed, the
\* invocations are exactly the eligible addresses passed so far, in order,
\* and such a run ends only after the last address, with exit code 0.
C4_SkipsContinue ==
    (routesErr = "nil" /\ ifacesErr = "nil" /\ \A k \in 1..Len(invocations) : ~ToolFailed(invocations[k].run)) =>
        /\ pc = "loop" =>
              ArgsOf(invocations) = [k \in 1..Len(SelectSeq(SubSeq(ifaces, 1, idx - 1), Eligible)) |->
                                        ProbeArgs(SelectSeq(SubSeq(ifaces, 1, idx - 1), Eligible)[k])]
        /\ pc = "exit" =>
              /\ exitCode = 0
              /\ ArgsOf(invocations) = [k \in 1..Len(SelectSeq(ifaces, Eligible)) |->
                                           ProbeArgs(SelectSeq(ifaces, Eligible)[k])]

\* a run ended well after skipping a non-IPv4 address and an address without
\* gateway, with an invocation after the skips
C4_Witness ==
    /\ pc = "exit" /\ exitCode = 0
    /\ \E i, j, k \in 1..Len(ifaces) :
          /\ i < k /\ j < k
          /\ ifaces[i].addr \notin V4Texts
          /\ ifaces[j].addr \in V4Texts /\ ifaces[j].name \notin DOMAIN defaultRoutes
          /\ Eligible(ifaces[k])

\* C5: the exit code is 0 exactly when the routing table was read and parsed,
\* the interfaces were listed and every invocation succeeded; it is 1 with no
\* invocation at all when the table cannot be opened, read or parsed or the
\* interfaces cannot be listed.
C5_ExitCode ==
    pc = "exit" =>
        /\ exitCode \in {0, 1}
        /\ exitCode = 0 <=>
              /\ routesErr = "nil"
              /\ ifacesErr = "nil"
              /\ \A k \in 1..Len(invocations) : ~ToolFailed(invocations[k].run)
        /\ (~FileRead \/ routesErr # "nil" \/ netIfaces.err) => exitCode = 1 /\ invocations = <<>>

\* a run in which every address was skipped ended with exit code 0
C5_Witness ==
    /\ pc = "exit" /\ exitCode = 0
    /\ ifaces # <<>> /\ invocations = <<>>

\* C6 as stated: whenever all lines after the first are well-formed, GetRoutes
\* returns one Route per line after the first, in order, decoded, and no error.
C6_OneRoutePerDataLine ==
    (RoutesRead /\ FileRead /\ \A k \in 2..Len(FileLines) : WellFormedLine(FileLines[k])) =>
        /\ routesErr = "nil"
        /\ routes = [k \in 1..(Len(FileLines) - 1) |-> RouteOfLine(FileLines[k + 1])]

\* C7 as stated: a line after the header with fewer than 3 fields makes
\* GetRoutes return an error and no routes.
C7_ShortLineFails ==
    (RoutesRead /\ FileRead /\ \E k \in 2..Len(FileLines) : Len(Fields(FileLines[k])) < 3) =>
        routesErr # "nil" /\ routes = <<>>

\* C8 as stated: a destination or gateway field of a data line that is not 8
\* hex characters makes GetRoutes fail with "only IPv4 is supported" and
\* return no routes.
C8_BadFieldFails ==
    (/\ RoutesRead /\ FileRead
     /\ \A k \in 1..Len(FileLines) : Len(Fields(FileLines[k])) >= 3
     /\ \E k \in 2..Len(FileLines) : ~IsHex8(Fields(FileLines[k])[2]) \/ ~IsHex8(Fields(FileLines[k])[3])) =>
        routesErr = "only IPv4 is supported" /\ routes = <<>>

\* the interfaces localAddresses keeps
Kept(d) == d.HardwareAddr # <<>> /\ ~d.addrsErr

\* C9: localAddresses returns one record per address of every interface with
\* a hardware address whose addresses could be listed, in order; when the
\* interfaces cannot be listed it returns an error and no record.
C9_OneRecordPerAddress ==
    (pc = "loop" \/ (pc = "exit" /\ routesErr = "nil")) =>
        IF netIfaces.err
        THEN ifacesErr # "nil" /\ ifaces = <<>>
        ELSE /\ ifacesErr = "nil"
             /\ [k \in 1..Len(ifaces) |-> <<ifaces[k].name, ifaces[k].addr>>] =
                    Flatten([i \in 1..Len(netIfaces.list) |->
                                IF Kept(netIfaces.list[i])
                                THEN [j \in 1..Len(netIfaces.list[i].addrs) |->
                                         <<netIfaces.list[i].Name, netIfaces.list[i].addrs[j]>>]
                                ELSE <<>>])
             /\ \A k \in 1..Len(ifaces) : ifaces[k].mac # <<>>

\* records were returned after an interface that was left out
C9_Witness ==
    /\ pc = "loop" /\ ifaces # <<>>
    /\ Len(netIfaces.list) >= 2 /\ ~Kept(netIfaces.list[1])

Succeeded(inv) == ~ToolFailed(inv.run)

====
